---- MODULE Spec2Model ----
(***************************************************************************)
(* Model of the plugin manager of ion_core (src/engine/plugin.rs):         *)
(* PluginManager::new, PluginManager::query_plugins and                     *)
(* PluginManager::get_plugin, over a disk of plugin directories.            *)
(*                                                                         *)
(* Text that the code computes with (directory arguments, file names, the  *)
(* platform suffix, the glob pattern, paths) is a sequence of one-letter   *)
(* strings, so that format!, the glob match and the suffix test are        *)
(* computed.  Text that the code only stores and compares for equality     *)
(* (name, author, description) is a string.                                *)
(***************************************************************************)
EXTENDS Integers, Sequences, FiniteSets, TLC

VARIABLES
    plugin_list,      \* PluginManager.plugin_list: Vec<Plugin>
    _plugin_ext,      \* PluginManager._plugin_ext: the platform suffix
    bad_tag_reads_as, \* what this build makes of an out-of-range PluginType
    status,           \* how the last query_plugins call ended
    last_dir,         \* the plugin_dir argument of the last query_plugins call
    opened,           \* the paths handed to Library::new by the last call
    prev_status,      \* status, last_dir and plugin_list as the last
    prev_dir,         \*   query_plugins call found them
    prev_list,
    scan_count,       \* number of query_plugins calls made
    lookup_name,      \* the name argument of the last get_plugin call
    lookup_result     \* what that call returned

vars == <<plugin_list, _plugin_ext, bad_tag_reads_as, status, last_dir, opened,
          prev_status, prev_dir, prev_list, scan_count, lookup_name,
          lookup_result>>

\* Number of query_plugins calls a behaviour makes.
MaxScans == 3

(***************************************************************************)
(* Enumerations.                                                           *)
(***************************************************************************)
PluginType == {"AudioBackend", "RenderBackend", "WindowBackend"}

PluginState == {"Unloaded", "MarkedForLoad", "Loaded", "Disabled"}

\* The discriminants of PluginType, in declaration order.
TypeOfTag == <<"AudioBackend", "RenderBackend", "WindowBackend">>

\* cfg!(target_os = ...) of PluginManager::new; any other platform panics
\* there and constructs nothing.
ExtWindows == <<".", "d", "l", "l">>

ExtLinux == <<".", "s", "o">>

ExtMacos == <<".", "d", "y", "l", "i", "b">>

PlatformExts == {ExtWindows, ExtLinux, ExtMacos}

\* The entry points a plugin module must export.
RequiredSymbols == {"get_name", "get_author", "get_description", "get_type"}

(***************************************************************************)
(* The disk.  A directory is a name and its entries in the order glob      *)
(* enumerates them (sorted by name).  An entry records what the loader     *)
(* does with it: whether Library::new opens it, the symbols it exports,    *)
(* what its entry points return, and the integer its get_type returns.     *)
(***************************************************************************)
Module(file, name, author, description, tag) ==
    [file |-> file, opens |-> TRUE, syms |-> RequiredSymbols, name |-> name,
     author |-> author, description |-> description, tag |-> tag]

\* A file that is no native module (or a sub-directory): Library::new fails.
NotAModule(file) ==
    [file |-> file, opens |-> FALSE, syms |-> {}, name |-> "", author |-> "",
     description |-> "", tag |-> 0]

\* A module that lacks the given entry point.
Lacking(m, sym) == [m EXCEPT !.syms = RequiredSymbols \ {sym}]

Disk ==
    << [name |-> <<"p", "a">>,   \* the directory of property P4
        entries |->
          << Module(<<"a", ".", "d", "l", "l">>, "dx", "Team C", "DX backend", 1),
             Module(<<"a", ".", "d", "y", "l", "i", "b">>, "mtl", "Team D", "Metal backend", 1),
             Module(<<"a", ".", "s", "o">>, "gl", "Team A", "GL backend", 1),
             NotAModule(<<"b", ".", "t", "x", "t">>),
             Module(<<"c", ".", "d", "l", "l">>, "xa", "Team C", "XAudio backend", 0),
             Module(<<"c", ".", "s", "o">>, "al", "Team B", "AL backend", 0) >>],
       [name |-> <<"p", "d">>,   \* modules that report the same name
        entries |->
          << Module(<<"a", ".", "s", "o">>, "gl", "Team A", "GL backend", 1),
             Module(<<"c", ".", "s", "o">>, "gl", "Team E", "GL window", 2),
             Module(<<"e", ".", "s", "o">>, "GL", "Team F", "GL upper", 1) >>],
       [name |-> <<"x", "c">>,   \* a file with the suffix that is no module
        entries |->
          << Module(<<"a", ".", "s", "o">>, "gl", "Team A", "GL backend", 1),
             NotAModule(<<"k", ".", "s", "o">>),
             Module(<<"z", ".", "s", "o">>, "al", "Team B", "AL backend", 0) >>],
       [name |-> <<"x", "e">>,   \* no file with a platform suffix
        entries |-> << NotAModule(<<"b", ".", "t", "x", "t">>) >>],
       [name |-> <<"x", "m">>,   \* a module without get_type
        entries |->
          << Module(<<"a", ".", "s", "o">>, "gl", "Team A", "GL backend", 1),
             Lacking(Module(<<"n", ".", "s", "o">>, "np", "Team N", "no type", 1),
                     "get_type"),
             Module(<<"z", ".", "s", "o">>, "al", "Team B", "AL backend", 0) >>],
       [name |-> <<"x", "t">>,   \* a module whose get_type returns 7
        entries |->
          << Module(<<"t", ".", "s", "o">>, "odd", "Team T", "odd tag", 7) >>] >>

\* The plugin_dir arguments the host passes: the directories of the disk, a
\* directory that does not exist, and two names holding glob metacharacters.
DirArgs ==
    { Disk[i].name : i \in DOMAIN Disk }
        \cup { <<"z", "z">>, <<"p", "?">>, <<"p", "[">> }

\* The name arguments the host passes to get_plugin.
LookupNames ==
    { "gl", "GL", "Gl", "al", "dx", "odd", "np", "nonexistent-plugin-xyz" }

(***************************************************************************)
(* glob(&format!("{}/*{}", plugin_dir, &self._plugin_ext))                  *)
(***************************************************************************)
\* format!("{}/*{}", plugin_dir, ext)
FormatPattern(plugin_dir, ext) == plugin_dir \o <<"/", "*">> \o ext

\* glob's Pattern::new rejects a "[" that no later "]" closes (the class
\* needs at least one member before its "]").
PatternError(pattern) ==
    \E i \in DOMAIN pattern :
        /\ pattern[i] = "["
        /\ ~ \E j \in (i + 2)..Len(pattern) : pattern[j] = "]"

\* The pattern's components: what precedes the last "/" and what follows it.
LastSlash(pattern) ==
    CHOOSE i \in DOMAIN pattern :
        /\ pattern[i] = "/"
        /\ \A j \in (i + 1)..Len(pattern) : pattern[j] # "/"

DirComponent(pattern) == SubSeq(pattern, 1, LastSlash(pattern) - 1)

FileComponent(pattern) ==
    SubSeq(pattern, LastSlash(pattern) + 1, Len(pattern))

\* A component of literal characters and "?" matches a name of the same
\* length that agrees with it wherever it is not "?".
MatchesLiteral(component, text) ==
    /\ Len(component) = Len(text)
    /\ \A i \in DOMAIN component :
           component[i] = "?" \/ component[i] = text[i]

\* A component "*" followed by literal characters matches the names that end
\* with those characters.
MatchesStar(component, text) ==
    LET tail == Tail(component)
    IN  /\ Head(component) = "*"
        /\ Len(text) >= Len(tail)
        /\ MatchesLiteral(tail,
                          SubSeq(text, Len(text) - Len(tail) + 1, Len(text)))

\* The path glob yields for an entry of a directory.
PathOf(dir_name, file) == dir_name \o <<"/">> \o file

\* The matching entries of one directory, in enumeration order.
GlobDir(dir, pattern) ==
    LET hits == SelectSeq(dir.entries,
                          LAMBDA e : MatchesStar(FileComponent(pattern), e.file))
    IN  [k \in DOMAIN hits |->
            [path |-> PathOf(dir.name, hits[k].file), entry |-> hits[k]]]

\* The matches of a valid pattern: the entries of every directory the first
\* component matches, directory by directory.
RECURSIVE GlobFrom(_, _)
GlobFrom(dirs, pattern) ==
    IF dirs = <<>> THEN <<>>
    ELSE (IF MatchesLiteral(DirComponent(pattern), Head(dirs).name)
            THEN GlobDir(Head(dirs), pattern)
            ELSE <<>>)
         \o GlobFrom(Tail(dirs), pattern)

Glob(pattern) == GlobFrom(Disk, pattern)

(***************************************************************************)
(* query_plugins                                                           *)
(***************************************************************************)
\* self.plugin_list.clear ()
ClearKept(list) == list

Clear(list) == <<>>

\* Library::new (&path): Ok exactly when the file opens as a native module.
LibraryNew(cand) == cand.entry.opens

\* The four lib.get (..).unwrap () calls: all of them must resolve.
ResolveAllUnchecked(cand) == TRUE

ResolveAll(cand) == RequiredSymbols \subseteq cand.entry.syms

\* get_type (): the integer the module returns, read as a PluginType.  The
\* code checks nothing: an integer that is no discriminant of PluginType is
\* undefined behaviour, and reads as whatever this build makes of it.
GetType(cand) ==
    IF cand.entry.tag \in 0..(Len(TypeOfTag) - 1)
        THEN TypeOfTag[cand.entry.tag + 1]
        ELSE bad_tag_reads_as

\* The Plugin {..} literal pushed for a candidate.
NewPluginLoaded(cand) ==
    [name |-> cand.entry.name, author |-> cand.entry.author,
     description |-> cand.entry.description, path |-> cand.path,
     plugin_type |-> GetType(cand), plugin_state |-> "Loaded"]

NewPlugin(cand) ==
    [name |-> cand.entry.name, author |-> cand.entry.author,
     description |-> cand.entry.description, path |-> cand.path,
     plugin_type |-> GetType(cand), plugin_state |-> "Unloaded"]

\* The for loop over the candidates: each is opened, its four entry points
\* are resolved, and its record is pushed; the first unwrap () of an Err
\* panics, which ends the call with the list as it is.
RECURSIVE ScanLoopSkipping(_, _, _)
ScanLoopSkipping(cands, list, log) ==
    IF cands = <<>>
        THEN [list |-> list, opened |-> log, status |-> "returned"]
    ELSE LET cand == Head(cands)
             log2 == Append(log, cand.path)
         IN  IF ~ LibraryNew(cand) \/ ~ ResolveAll(cand)
                 THEN ScanLoopSkipping(Tail(cands), list, log2)
             ELSE ScanLoopSkipping(Tail(cands),
                                   Append(list, NewPlugin(cand)), log2)

RECURSIVE ScanLoop(_, _, _)
ScanLoop(cands, list, log) ==
    IF cands = <<>>
        THEN [list |-> list, opened |-> log, status |-> "returned"]
    ELSE LET cand == Head(cands)
             log2 == Append(log, cand.path)
         IN  IF ~ LibraryNew(cand)
                 THEN [list |-> list, opened |-> log2, status |-> "panicked"]
             ELSE IF ~ ResolveAll(cand)
                 THEN [list |-> list, opened |-> log2, status |-> "panicked"]
             ELSE ScanLoop(Tail(cands), Append(list, NewPlugin(cand)), log2)

\* The whole call: clear, build the pattern, glob (whose Err panics), loop.
query_plugins(list, plugin_dir, ext) ==
    LET pattern == FormatPattern(plugin_dir, ext)
    IN  IF PatternError(pattern)
            THEN [list |-> Clear(list), opened |-> <<>>, status |-> "panicked"]
        ELSE ScanLoop(Glob(pattern), Clear(list), <<>>)

(***************************************************************************)
(* get_plugin                                                              *)
(***************************************************************************)
NoResult == [kind |-> "None"]

\* p.name == name
NameEqFolded(a, b) ==
    LET fold(s) == IF s \in {"GL", "Gl", "gL"} THEN "gl" ELSE s
    IN  fold(a) = fold(b)

NameEq(a, b) == a = b

\* &self.plugin_list [index], index counted from 0: panics out of bounds.
IndexInto(list, index) ==
    IF index < Len(list)
        THEN [kind |-> "Ok", index |-> index, plugin |-> list[index + 1]]
        ELSE [kind |-> "Panic"]

\* The for loop: p is the element at position pos of the iterator, index the
\* counter the code keeps beside it.
RECURSIVE get_plugin_loop_no_increment(_, _, _, _)
get_plugin_loop_no_increment(list, name, pos, index) ==
    IF pos > Len(list) THEN [kind |-> "Err"]
    ELSE IF NameEq(list[pos].name, name) THEN IndexInto(list, index)
    ELSE get_plugin_loop_no_increment(list, name, pos + 1, index)

RECURSIVE get_plugin_loop(_, _, _, _)
get_plugin_loop(list, name, pos, index) ==
    IF pos > Len(list) THEN [kind |-> "Err"]
    ELSE IF NameEq(list[pos].name, name) THEN IndexInto(list, index)
    ELSE get_plugin_loop(list, name, pos + 1, index + 1)

\* A loop that keeps the last match instead of returning at the first.
get_plugin_last_match(list, name) ==
    LET hits == { i \in DOMAIN list : NameEq(list[i].name, name) }
    IN  IF hits = {} THEN [kind |-> "Err"]
        ELSE LET i == CHOOSE k \in hits : \A h \in hits : h <= k
             IN  IndexInto(list, i - 1)

get_plugin(list, name) == get_plugin_loop(list, name, 1, 0)

(***************************************************************************)
(* The state machine.                                                      *)
(***************************************************************************)
\* PluginManager::new () on one of the three supported platforms, in a build
\* that reads an out-of-range PluginType one way or another.
Init ==
    /\ plugin_list = <<>>
    /\ _plugin_ext \in PlatformExts
    /\ bad_tag_reads_as \in PluginType \cup {"Invalid"}
    /\ status = "none"
    /\ last_dir = <<>>
    /\ opened = <<>>
    /\ prev_status = "none"
    /\ prev_dir = <<>>
    /\ prev_list = <<>>
    /\ scan_count = 0
    /\ lookup_name = ""
    /\ lookup_result = NoResult

\* A call of query_plugins (plugin_dir).  The reference a get_plugin call
\* returned borrows the manager, so none is alive across this call.
QueryPlugins(plugin_dir) ==
    /\ scan_count < MaxScans
    /\ LET r == query_plugins(plugin_list, plugin_dir, _plugin_ext)
       IN  /\ plugin_list' = r.list
           /\ opened' = r.opened
           /\ status' = r.status
    /\ last_dir' = plugin_dir
    /\ prev_status' = status
    /\ prev_dir' = last_dir
    /\ prev_list' = plugin_list
    /\ scan_count' = scan_count + 1
    /\ lookup_name' = ""
    /\ lookup_result' = NoResult
    /\ UNCHANGED <<_plugin_ext, bad_tag_reads_as>>

\* A call of get_plugin (name).
GetPlugin(name) ==
    /\ lookup_name' = name
    /\ lookup_result' = get_plugin(plugin_list, name)
    /\ UNCHANGED <<plugin_list, _plugin_ext, bad_tag_reads_as, status,
                   last_dir, opened, prev_status, prev_dir, prev_list,
                   scan_count>>

Next ==
    \/ \E plugin_dir \in DirArgs : QueryPlugins(plugin_dir)
    \/ \E name \in LookupNames : GetPlugin(name)

Spec == Init /\ [][Next]_vars

(***************************************************************************)
(* Vocabulary of the properties.                                           *)
(***************************************************************************)
\* The candidates of the last query_plugins call.
LastPattern == FormatPattern(last_dir, _plugin_ext)

LastCandidates == IF PatternError(LastPattern) THEN <<>> ELSE Glob(LastPattern)

\* Whether text ends with suffix.
EndsWith(text, suffix) ==
    /\ Len(text) >= Len(suffix)
    /\ SubSeq(text, Len(text) - Len(suffix) + 1, Len(text)) = suffix

\* The paths of the files with the platform suffix directly inside the
\* directory named dir, in enumeration order (none when there is no such
\* directory).
SuffixedChildren(dir) ==
    LET here == { i \in DOMAIN Disk : Disk[i].name = dir }
    IN  IF here = {} THEN <<>>
        ELSE LET d == Disk[CHOOSE i \in here : TRUE]
                 files == SelectSeq(d.entries,
                                    LAMBDA e : EndsWith(e.file, _plugin_ext))
             IN  [k \in DOMAIN files |-> PathOf(d.name, files[k].file)]

\* The disk entry a path names.
EntryAt(path) ==
    LET all == UNION { { [dir |-> Disk[i].name, entry |-> Disk[i].entries[j]] :
                           j \in DOMAIN Disk[i].entries } : i \in DOMAIN Disk }
    IN  (CHOOSE x \in all : PathOf(x.dir, x.entry.file) = path).entry

\* A candidate the loader cannot introspect.
FailsIntrospection(entry) ==
    ~ entry.opens \/ ~ (RequiredSymbols \subseteq entry.syms)

\* The five descriptive fields of a record.
Described(p) == <<p.name, p.author, p.description, p.path, p.plugin_type>>

PathsOf(list) == [k \in DOMAIN list |-> list[k].path]

(***************************************************************************)
(* Properties.                                                             *)
(***************************************************************************)
\* C1: when query_plugins returns, plugin_list is exactly the records of the
\* candidates of this call, whatever the list held before; a second scan of
\* the same directory yields the same sequence as the first.
Thm_C1_ScanReplaces ==
    status = "returned" =>
        /\ plugin_list =
              [k \in DOMAIN LastCandidates |-> NewPlugin(LastCandidates[k])]
        /\ (prev_status = "returned" /\ prev_dir = last_dir)
              => plugin_list = prev_list

Wit_C1_ScanReplaces ==
    /\ status = "returned" /\ prev_status = "returned"
    /\ prev_dir # last_dir
    /\ prev_list # <<>> /\ plugin_list # <<>>
    /\ Len(plugin_list) < Len(prev_list)

\* C2 as stated: for every record r of plugin_list, get_plugin (r.name)
\* returns a record with r's name, author, description, path and plugin_type.
Orig_C2_LookupIdentical ==
    \A i \in DOMAIN plugin_list :
        LET r == get_plugin(plugin_list, plugin_list[i].name)
        IN  r.kind = "Ok" /\ Described(r.plugin) = Described(plugin_list[i])

\* C2 amended: for every record r of plugin_list, get_plugin (r.name) returns
\* the first record of the list named r.name; it has r's name, and all five
\* fields of r when no earlier record has r's name.
Thm_C2_LookupFirstNamed ==
    \A i \in DOMAIN plugin_list :
        LET r == get_plugin(plugin_list, plugin_list[i].name)
        IN  /\ r.kind = "Ok"
            /\ r.index + 1 <= i
            /\ r.plugin = plugin_list[r.index + 1]
            /\ r.plugin.name = plugin_list[i].name
            /\ \A j \in 1..r.index : plugin_list[j].name # plugin_list[i].name
            /\ (\A j \in 1..(i - 1) : plugin_list[j].name # plugin_list[i].name)
                  => Described(r.plugin) = Described(plugin_list[i])

Wit_C2_LookupFirstNamed ==
    /\ lookup_result.kind = "Ok"
    /\ \E i \in DOMAIN plugin_list :
          /\ plugin_list[i].name = lookup_name
          /\ plugin_list[i].path # lookup_result.plugin.path

\* C3: get_plugin (name) returns Err, and neither a record nor a panic, when
\* no record is named exactly name; it returns a record only when one is, and
\* the record it returns has that name.
Thm_C3_LookupMiss ==
    lookup_result.kind # "None" =>
        /\ lookup_result.kind \in {"Ok", "Err"}
        /\ lookup_result.kind = "Ok"
              <=> \E i \in DOMAIN plugin_list : plugin_list[i].name = lookup_name
        /\ lookup_result.kind = "Ok" => lookup_result.plugin.name = lookup_name

Wit_C3_LookupMiss ==
    /\ lookup_result.kind = "Err"
    /\ lookup_name = "GL"
    /\ \E i \in DOMAIN plugin_list : plugin_list[i].name = "gl"

\* C4: get_plugin (name) returns the record of smallest index named name, and
\* query_plugins keeps every candidate's record, same-named ones included.
Thm_C4_FirstMatchWins ==
    /\ lookup_result.kind = "Ok" =>
          /\ lookup_result.plugin = plugin_list[lookup_result.index + 1]
          /\ \A j \in 1..lookup_result.index :
                 plugin_list[j].name # lookup_name
    /\ status = "returned" => PathsOf(plugin_list) = PathsOf(LastCandidates)

Wit_C4_FirstMatchWins ==
    /\ lookup_result.kind = "Ok"
    /\ \E j \in DOMAIN plugin_list :
          /\ j > lookup_result.index + 1
          /\ plugin_list[j].name = lookup_name

\* C5 as stated: when query_plugins (D) returns, plugin_list holds one record
\* per file with the platform suffix directly inside D, in enumeration order,
\* with that file's path, and no file without the suffix was opened.
Orig_C5_SuffixedChildrenOfDir ==
    status = "returned" =>
        /\ PathsOf(plugin_list) = SuffixedChildren(last_dir)
        /\ \A k \in DOMAIN opened : EndsWith(opened[k], _plugin_ext)

\* C6 as stated: query_plugins on a directory that is absent or holds no
\* file with the platform suffix returns, with plugin_list empty.
Orig_C6_NothingToScan ==
    (scan_count > 0 /\ SuffixedChildren(last_dir) = <<>>) =>
        status = "returned" /\ plugin_list = <<>>

\* C7: every record of plugin_list, and every record get_plugin returns, has
\* plugin_state Unloaded.
Thm_C7_AlwaysUnloaded ==
    /\ \A i \in DOMAIN plugin_list : plugin_list[i].plugin_state = "Unloaded"
    /\ lookup_result.kind = "Ok" =>
          lookup_result.plugin.plugin_state = "Unloaded"

Wit_C7_AlwaysUnloaded ==
    /\ scan_count >= 2
    /\ Len(plugin_list) >= 2
    /\ lookup_result.kind = "Ok"

\* C8: when a candidate fails to open or lacks an entry point, query_plugins
\* does not return: it panics at the first such candidate, having opened the
\* candidates up to it and no later one, with the records of those before it.
Thm_C8_AbortAtFirstFailure ==
    LET bad == { k \in DOMAIN LastCandidates :
                   FailsIntrospection(LastCandidates[k].entry) }
    IN  (scan_count > 0 /\ bad # {}) =>
            LET b == CHOOSE k \in bad : \A h \in bad : k <= h
            IN  /\ status = "panicked"
                /\ opened = PathsOf(SubSeq(LastCandidates, 1, b))
                /\ PathsOf(plugin_list) =
                      PathsOf(SubSeq(LastCandidates, 1, b - 1))

Wit_C8_AbortAtFirstFailure ==
    /\ status = "panicked"
    /\ Len(opened) >= 2
    /\ Len(opened) < Len(LastCandidates)
    /\ FailsIntrospection(EntryAt(opened[Len(opened)]))

\* C9 as stated: a module whose get_type yields no PluginType tag gets no
\* record, and every record's plugin_type is the tag its module declared.
Orig_C9_CategoryValidated ==
    \A i \in DOMAIN plugin_list :
        LET tag == EntryAt(plugin_list[i].path).tag
        IN  /\ tag \in 0..(Len(TypeOfTag) - 1)
            /\ plugin_list[i].plugin_type = TypeOfTag[tag + 1]

\* C10: no record of plugin_list, in any state, the one a panicked scan
\* leaves included, belongs to a file that failed to open or to resolve one
\* of the four entry points.
Thm_C10_OnlyIntrospected ==
    \A i \in DOMAIN plugin_list :
        ~ FailsIntrospection(EntryAt(plugin_list[i].path))

Wit_C10_OnlyIntrospected ==
    /\ status = "panicked"
    /\ plugin_list # <<>>
    /\ Len(opened) = Len(plugin_list) + 1

====
